---- MODULE Spec2Model ----
(***************************************************************************)
(* A model of the storywaver editor: the App component's story state and   *)
(* its handlers (src/App.tsx), the JSON export / import text conversions   *)
(* (src/unnamed/part_000, src/App.tsx), and the GraphVisualizer effect:    *)
(* topology, leveling, simulation rebuild, drag, auto-fit and zoom         *)
(* (src/components/GraphVisualizer.tsx).                                   *)
(*                                                                         *)
(* Strings of the program are sequences of one-character strings, so that  *)
(* JSON.stringify, the comment-stripping regular expression and JSON.parse *)
(* are computed character by character.                                    *)
(***************************************************************************)
EXTENDS Integers, Sequences, FiniteSets, TLC

VARIABLES
    nodes,            \* App: useState<StoryNode[]>            (sequence of [id, title, content])
    links,            \* App: useState<StoryLink[]>            (sequence of [id, source, target, label])
    selectedNodeId,   \* App: useState<string | null>          (Null or an id)
    now,              \* the clock read by Date.now()
    file,             \* the text of the last file written by downloadJSON (NoFile before)
    alertMsg,         \* what the last handler showed with alert() ("none" when nothing)
    isFixed,          \* GraphVisualizer: useState(false), the fixed mode
    nodePositionsRef, \* GraphVisualizer: the Map from node ids to { x, y, fx, fy }
    simulation,       \* what the last run of the effect that drew the graph left
    drag,             \* the node drag under way
    zoom,             \* the transform d3-zoom keeps on the svg (svg.__zoom)
    gTransform,       \* the transform attribute of the drawn group
    dropped,          \* ghost: the last drop of a node in fixed mode (its id, where it
                      \* was dropped and how many nodes the story had), while it stands
    leveling,         \* the effect's leveling loop, followed step by step
    editor,           \* StoryEditor: the draft title and body, isAiLoading and
                      \* the assist request awaited
    events            \* the number of events handled so far

appVars == <<nodes, links, selectedNodeId, now, file, alertMsg>>
graphVars == <<isFixed, nodePositionsRef, simulation, drag, zoom, gTransform, dropped, leveling>>
vars == <<nodes, links, selectedNodeId, now, file, alertMsg, isFixed, nodePositionsRef,
          simulation, drag, zoom, gTransform, dropped, leveling, editor, events>>

Null == <<"null">>
NoFile == <<"nofile">>

(***************************************************************************)
(* Characters and small helpers                                            *)
(***************************************************************************)
QUOTE == "\""
BSLASH == "\\"
SLASH == "/"
STAR == "*"
NL == "\n"

Digits == {"0", "1", "2", "3", "4", "5", "6", "7", "8", "9"}
HexDigits == Digits \cup {"a", "b", "c", "d", "e", "f", "A", "B", "C", "D", "E", "F"}
\* the line terminators that "." of a JavaScript regular expression does not match
LineTerminators == {"\n", "\r"}
\* JSON white space
JsonWs == {" ", "\t", "\n", "\r"}
\* characters a JSON string may not hold unescaped (U+0000..U+001F)
ControlChars == {"\n", "\r", "\t", "\f"}

At(txt, i) == IF i >= 1 /\ i <= Len(txt) THEN txt[i] ELSE "EOF"

RECURSIVE Concat(_)
Concat(ss) == IF ss = <<>> THEN <<>> ELSE Head(ss) \o Concat(Tail(ss))

Range(seq) == {seq[i] : i \in DOMAIN seq}

(***************************************************************************)
(* JSON.stringify(data, null, 2)      src/unnamed/part_000:5               *)
(***************************************************************************)
K_nodes == <<"n", "o", "d", "e", "s">>
K_links == <<"l", "i", "n", "k", "s">>
K_id == <<"i", "d">>
K_title == <<"t", "i", "t", "l", "e">>
K_content == <<"c", "o", "n", "t", "e", "n", "t">>
K_source == <<"s", "o", "u", "r", "c", "e">>
K_target == <<"t", "a", "r", "g", "e", "t">>
K_label == <<"l", "a", "b", "e", "l">>

\* the escape JSON.stringify writes for one character of a string
EscapeChar(c) ==
    CASE c = QUOTE -> <<BSLASH, QUOTE>>
      [] c = BSLASH -> <<BSLASH, BSLASH>>
      [] c = "\n" -> <<BSLASH, "n">>
      [] c = "\r" -> <<BSLASH, "r">>
      [] c = "\t" -> <<BSLASH, "t">>
      [] c = "\f" -> <<BSLASH, "f">>
      [] OTHER -> <<c>>

RECURSIVE EscapeFrom(_, _)
EscapeFrom(s, i) == IF i > Len(s) THEN <<>> ELSE EscapeChar(s[i]) \o EscapeFrom(s, i + 1)

\* a string value as JSON text
QuoteJson(s) == <<QUOTE>> \o EscapeFrom(s, 1) \o <<QUOTE>>

RECURSIVE Indent(_)
Indent(n) == IF n = 0 THEN <<>> ELSE <<" ">> \o Indent(n - 1)

\* "key": "value"
Member(ind, key, val) == Indent(ind) \o QuoteJson(key) \o <<":", " ">> \o QuoteJson(val)

\* an object of string members, opened at the current column, members at ind + 2
RECURSIVE JoinLines(_, _)
JoinLines(items, i) ==
    IF i > Len(items) THEN <<>>
    ELSE items[i] \o (IF i < Len(items) THEN <<",", NL>> ELSE <<NL>>) \o JoinLines(items, i + 1)

StringifyObject(ind, members) ==
    <<"{", NL>> \o JoinLines(members, 1) \o Indent(ind) \o <<"}">>

StringifyNode(n, ind) ==
    StringifyObject(ind, << Member(ind + 2, K_id, n.id),
                            Member(ind + 2, K_title, n.title),
                            Member(ind + 2, K_content, n.content) >>)

StringifyLink(l, ind) ==
    StringifyObject(ind, << Member(ind + 2, K_id, l.id),
                            Member(ind + 2, K_source, l.source),
                            Member(ind + 2, K_target, l.target),
                            Member(ind + 2, K_label, l.label) >>)

\* an array: [] when empty, else one element per line at ind + 2
StringifyArray(ind, items) ==
    IF items = <<>> THEN <<"[", "]">>
    ELSE <<"[", NL>> \o JoinLines([i \in DOMAIN items |-> Indent(ind + 2) \o items[i]], 1)
         \o Indent(ind) \o <<"]">>

\* JSON.stringify({ nodes, links }, null, 2)
Stringify(ns, ls) ==
    <<"{", NL>>
    \o Indent(2) \o QuoteJson(K_nodes) \o <<":", " ">>
    \o StringifyArray(2, [i \in DOMAIN ns |-> StringifyNode(ns[i], 4)]) \o <<",", NL>>
    \o Indent(2) \o QuoteJson(K_links) \o <<":", " ">>
    \o StringifyArray(2, [i \in DOMAIN ls |-> StringifyLink(ls[i], 4)]) \o <<NL>>
    \o <<"}">>

(***************************************************************************)
(* The comment stripping of the import     src/App.tsx:107-110             *)
(*   rawContent.replace(/\\"|"(?:\\"|[^"])*"|(\/\/.*|\/\*[\s\S]*?\*\/)/g,  *)
(*                      (m, g) => g ? "" : m)                              *)
(* A global replace scans left to right; at each position the alternatives *)
(* are tried in order, with backtracking inside the quoted-string          *)
(* alternative; where nothing matches the character is kept.               *)
(***************************************************************************)
MinOf(S) == CHOOSE k \in S : \A m \in S : k <= m
MaxOf(S) == CHOOSE k \in S : \A m \in S : k >= m

\* (?:\\"|[^"])*" from position j: the position after the match, 0 if none.
\* The star is greedy and the alternation ordered (\" before [^"]), so the
\* repetition runs to the first quote that no backslash precedes; when there
\* is none the matcher backtracks from the end, and the last \" of the text
\* gives its quote up to close the string.
StringTail(txt, j) ==
    LET quotes == {k \in j..Len(txt) : txt[k] = QUOTE}
        bare == {k \in quotes : k = j \/ txt[k - 1] # BSLASH}
    IN  IF bare # {} THEN MinOf(bare) + 1
        ELSE IF quotes # {} THEN MaxOf(quotes) + 1
        ELSE 0

\* .* from position j: the position of the first line terminator, or the end
LineEnd(txt, j) ==
    MinOf({k \in j..Len(txt) : txt[k] \in LineTerminators} \cup {Len(txt) + 1})

\* [\s\S]*?\*\/ from position j: the position after the first "*/", 0 if none
BlockEnd(txt, j) ==
    LET ends == {k \in j..(Len(txt) - 1) : txt[k] = STAR /\ txt[k + 1] = SLASH}
    IN  IF ends = {} THEN 0 ELSE MinOf(ends) + 2

\* the match at position i: [end |-> position after it (0: no match), comment |-> group 1 set]
MatchAt(txt, i) ==
    IF txt[i] = BSLASH /\ At(txt, i + 1) = QUOTE
        THEN [end |-> i + 2, comment |-> FALSE]
    ELSE IF txt[i] = QUOTE /\ StringTail(txt, i + 1) # 0
        THEN [end |-> StringTail(txt, i + 1), comment |-> FALSE]
    ELSE IF txt[i] = SLASH /\ At(txt, i + 1) = SLASH
        THEN [end |-> LineEnd(txt, i + 2), comment |-> TRUE]
    ELSE IF txt[i] = SLASH /\ At(txt, i + 1) = STAR /\ BlockEnd(txt, i + 2) # 0
        THEN [end |-> BlockEnd(txt, i + 2), comment |-> TRUE]
    ELSE [end |-> 0, comment |-> FALSE]

\* the first position from i where a match can start (its first character is
\* a backslash, a quote or a slash), or the end of the text
NextCandidate(txt, i) ==
    MinOf({k \in i..Len(txt) : txt[k] \in {BSLASH, QUOTE, SLASH}} \cup {Len(txt) + 1})

RECURSIVE StripFrom(_, _)
StripFrom(txt, i) ==
    IF i > Len(txt) THEN <<>>
    ELSE LET c == NextCandidate(txt, i)
             m == MatchAt(txt, c)
         IN  IF c > Len(txt) THEN SubSeq(txt, i, Len(txt))
             ELSE IF m.end = 0 THEN SubSeq(txt, i, c) \o StripFrom(txt, c + 1)
             ELSE SubSeq(txt, i, c - 1)
                  \o (IF m.comment THEN <<>> ELSE SubSeq(txt, c, m.end - 1))
                  \o StripFrom(txt, m.end)

StripComments(txt) == StripFrom(txt, 1)

(***************************************************************************)
(* JSON.parse                           src/App.tsx:112                    *)
(* A parsed value is [t, s, keys, items]: t is "str" (s its characters),   *)
(* "arr" (items its elements), "obj" (keys and items its members, in       *)
(* order), "num", "true", "false" or "null".  A parse result is            *)
(* [ok, val, pos]: pos is the position after the value.                    *)
(***************************************************************************)
JVal(t, s, keys, items) == [t |-> t, s |-> s, keys |-> keys, items |-> items]
JStr(s) == JVal("str", s, <<>>, <<>>)
JAtom(t) == JVal(t, <<>>, <<>>, <<>>)
PFail == [ok |-> FALSE, val |-> JAtom("null"), pos |-> 0]
POk(v, p) == [ok |-> TRUE, val |-> v, pos |-> p]

RECURSIVE SkipWs(_, _)
SkipWs(txt, i) == IF i <= Len(txt) /\ txt[i] \in JsonWs THEN SkipWs(txt, i + 1) ELSE i

RECURSIVE SkipDigits(_, _)
SkipDigits(txt, i) == IF i <= Len(txt) /\ txt[i] \in Digits THEN SkipDigits(txt, i + 1) ELSE i

\* a JSON number at i: the position after it, 0 if there is none
NumberEnd(txt, i) ==
    LET a == IF At(txt, i) = "-" THEN i + 1 ELSE i
        b == IF At(txt, a) = "0" THEN a + 1
             ELSE IF At(txt, a) \in Digits THEN SkipDigits(txt, a)
             ELSE 0
        c == IF b = 0 THEN 0
             ELSE IF At(txt, b) = "." THEN
                  (IF At(txt, b + 1) \in Digits THEN SkipDigits(txt, b + 1) ELSE 0)
             ELSE b
        sgn == IF At(txt, c + 1) \in {"+", "-"} THEN c + 2 ELSE c + 1
        d == IF c = 0 THEN 0
             ELSE IF At(txt, c) \in {"e", "E"} THEN
                  (IF At(txt, sgn) \in Digits THEN SkipDigits(txt, sgn) ELSE 0)
             ELSE c
    IN  d

StartsWith(txt, i, word) ==
    /\ i + Len(word) - 1 <= Len(txt)
    /\ SubSeq(txt, i, i + Len(word) - 1) = word

\* the character an escape \e stands for ("" when \e is no escape)
Unescape(e) ==
    CASE e = QUOTE -> QUOTE
      [] e = BSLASH -> BSLASH
      [] e = SLASH -> SLASH
      [] e = "n" -> "\n"
      [] e = "r" -> "\r"
      [] e = "t" -> "\t"
      [] e = "f" -> "\f"
      [] e = "b" -> "\\b"
      [] OTHER -> ""

RECURSIVE StringBody(_, _, _)
\* the characters of a string from position j (after its opening quote)
StringBody(txt, j, acc) ==
    IF j > Len(txt) THEN PFail
    ELSE IF txt[j] = QUOTE THEN POk(JStr(acc), j + 1)
    ELSE IF txt[j] = BSLASH THEN
        IF At(txt, j + 1) = "u" THEN
            IF \A k \in 2..5 : At(txt, j + k) \in HexDigits
            THEN StringBody(txt, j + 6, Append(acc, "\\u"))
            ELSE PFail
        ELSE IF j + 1 <= Len(txt) /\ Unescape(txt[j + 1]) # ""
            THEN StringBody(txt, j + 2, Append(acc, Unescape(txt[j + 1])))
        ELSE PFail
    ELSE IF txt[j] \in ControlChars THEN PFail
    ELSE StringBody(txt, j + 1, Append(acc, txt[j]))

RECURSIVE ParseValue(_, _)
RECURSIVE ParseElements(_, _, _)
RECURSIVE ParseMembers(_, _, _, _)

\* the value at position i (white space before it skipped)
ParseValue(txt, i0) ==
    LET i == SkipWs(txt, i0)
        c == At(txt, i)
    IN  IF c = QUOTE THEN StringBody(txt, i + 1, <<>>)
        ELSE IF c = "[" THEN
            (IF At(txt, SkipWs(txt, i + 1)) = "]"
             THEN POk(JVal("arr", <<>>, <<>>, <<>>), SkipWs(txt, i + 1) + 1)
             ELSE ParseElements(txt, i + 1, <<>>))
        ELSE IF c = "{" THEN
            (IF At(txt, SkipWs(txt, i + 1)) = "}"
             THEN POk(JVal("obj", <<>>, <<>>, <<>>), SkipWs(txt, i + 1) + 1)
             ELSE ParseMembers(txt, i + 1, <<>>, <<>>))
        ELSE IF StartsWith(txt, i, <<"t", "r", "u", "e">>) THEN POk(JAtom("true"), i + 4)
        ELSE IF StartsWith(txt, i, <<"f", "a", "l", "s", "e">>) THEN POk(JAtom("false"), i + 5)
        ELSE IF StartsWith(txt, i, <<"n", "u", "l", "l">>) THEN POk(JAtom("null"), i + 4)
        ELSE IF NumberEnd(txt, i) # 0 THEN POk(JAtom("num"), NumberEnd(txt, i))
        ELSE PFail

\* value (, value)* ] from position i
ParseElements(txt, i, acc) ==
    LET r == ParseValue(txt, i)
        j == SkipWs(txt, r.pos)
    IN  IF ~r.ok THEN PFail
        ELSE IF At(txt, j) = "," THEN ParseElements(txt, j + 1, Append(acc, r.val))
        ELSE IF At(txt, j) = "]" THEN POk(JVal("arr", <<>>, <<>>, Append(acc, r.val)), j + 1)
        ELSE PFail

\* "key" : value (, "key" : value)* } from position i
ParseMembers(txt, i0, ks, vs) ==
    LET i == SkipWs(txt, i0)
        k == IF At(txt, i) = QUOTE THEN StringBody(txt, i + 1, <<>>) ELSE PFail
        c == SkipWs(txt, k.pos)
        r == IF k.ok /\ At(txt, c) = ":" THEN ParseValue(txt, c + 1) ELSE PFail
        j == SkipWs(txt, r.pos)
    IN  IF ~r.ok THEN PFail
        ELSE IF At(txt, j) = ","
            THEN ParseMembers(txt, j + 1, Append(ks, k.val.s), Append(vs, r.val))
        ELSE IF At(txt, j) = "}"
            THEN POk(JVal("obj", <<>>, Append(ks, k.val.s), Append(vs, r.val)), j + 1)
        ELSE PFail

\* JSON.parse(txt): ok is FALSE where JSON.parse throws a SyntaxError
JsonParse(txt) ==
    LET r == ParseValue(txt, 1)
    IN  IF r.ok /\ SkipWs(txt, r.pos) = Len(txt) + 1 THEN r ELSE PFail

\* obj[key]: the last member of that name; Undefined when there is none
Undefined == JAtom("undefined")
RECURSIVE Lookup(_, _, _)
Lookup(v, key, i) ==
    IF i = 0 THEN Undefined
    ELSE IF v.keys[i] = key THEN v.items[i]
    ELSE Lookup(v, key, i - 1)
Prop(v, key) == IF v.t = "obj" THEN Lookup(v, key, Len(v.keys)) ELSE Undefined

(***************************************************************************)
(* The story state of App and its handlers          src/App.tsx:9-133      *)
(***************************************************************************)
\* bounds of the model
MaxClock == 5
MaxNodes == 4
MaxLinks == 3
MaxEvents == 4

RECURSIVE toString(_)
\* Number.prototype.toString for a natural number
toString(n) ==
    LET d == <<"0", "1", "2", "3", "4", "5", "6", "7", "8", "9">>[(n % 10) + 1]
    IN  IF n < 10 THEN <<d>> ELSE Append(toString(n \div 10), d)

StoryNode(id, title, content) == [id |-> id, title |-> title, content |-> content]
StoryLink(id, source, target, label) ==
    [id |-> id, source |-> source, target |-> target, label |-> label]

\* the texts of the initial story are abbreviated to one letter each
initialNodes ==
    << StoryNode(<<"1">>, <<"A">>, <<"x">>),
       StoryNode(<<"2">>, <<"B">>, <<"y">>),
       StoryNode(<<"3">>, <<"C">>, <<"z">>) >>

initialLinks ==
    << StoryLink(<<"l", "1">>, <<"1">>, <<"2">>, <<"n">>),
       StoryLink(<<"l", "2">>, <<"1">>, <<"3">>, <<"e">>) >>

NodeIds(ns) == {ns[i].id : i \in DOMAIN ns}

\* the default title of handleCreateNode, abbreviated
DefaultTitle == <<"N">>
\* the titles and bodies the editor saves, and the labels it gives a link
EditTitles == {<<"T">>}
EditContents == {<<"c">>}
LinkLabels == {<<"g">>}

\* Date.now() advances between events
ClockTick ==
    /\ now < MaxClock
    /\ now' = now + 1
    /\ UNCHANGED <<nodes, links, selectedNodeId, file, alertMsg>>

handleCreateNode(title, content) ==
    LET newNode == StoryNode(toString(now), title, content)
    IN  /\ Len(nodes) < MaxNodes
        /\ nodes' = Append(nodes, newNode)
        /\ selectedNodeId' = newNode.id
        /\ alertMsg' = "none"
        /\ UNCHANGED <<links, now, file>>

handleUpdateNode(updatedNode) ==
    /\ nodes' = [i \in DOMAIN nodes |->
                    IF nodes[i].id = updatedNode.id THEN updatedNode ELSE nodes[i]]
    /\ alertMsg' = "none"
    /\ UNCHANGED <<links, selectedNodeId, now, file>>

\* handleDeleteNode with the links filtered on their source alone
handleDeleteNode_SourceOnly(nodeId) ==
    /\ nodes' = SelectSeq(nodes, LAMBDA n : n.id # nodeId)
    /\ links' = SelectSeq(links, LAMBDA l : l.source # nodeId)
    /\ selectedNodeId' = IF selectedNodeId = nodeId THEN Null ELSE selectedNodeId
    /\ alertMsg' = "none"
    /\ UNCHANGED <<now, file>>

handleDeleteNode(nodeId) ==
    /\ nodes' = SelectSeq(nodes, LAMBDA n : n.id # nodeId)
    /\ links' = SelectSeq(links, LAMBDA l : l.source # nodeId /\ l.target # nodeId)
    /\ selectedNodeId' = IF selectedNodeId = nodeId THEN Null ELSE selectedNodeId
    /\ alertMsg' = "none"
    /\ UNCHANGED <<now, file>>

handleAddLink(sourceId, targetId, label) ==
    LET newLink == StoryLink(toString(now), sourceId, targetId, label)
    IN  /\ Len(links) < MaxLinks
        /\ links' = Append(links, newLink)
        /\ alertMsg' = "none"
        /\ UNCHANGED <<nodes, selectedNodeId, now, file>>

handleRemoveLink(linkId) ==
    /\ links' = SelectSeq(links, LAMBDA l : l.id # linkId)
    /\ alertMsg' = "none"
    /\ UNCHANGED <<nodes, selectedNodeId, now, file>>

\* downloadJSON({ nodes, links }, 'story-map'): the text of the file written
downloadJSON(ns, ls) == Stringify(ns, ls)

handleExportJSON ==
    /\ file' = downloadJSON(nodes, links)
    /\ alertMsg' = "none"
    /\ UNCHANGED <<nodes, links, selectedNodeId, now>>

\* onNodeSelect = setSelectedNodeId, called with the id of a drawn node
onNodeSelect(nodeId) ==
    /\ selectedNodeId' = nodeId
    /\ alertMsg' = "none"
    /\ UNCHANGED <<nodes, links, now, file>>

\* const selectedNode = nodes.find(n => n.id === selectedNodeId) || null
HasSelectedNode == selectedNodeId \in NodeIds(nodes)
SelectedNode == nodes[MinOf({i \in DOMAIN nodes : nodes[i].id = selectedNodeId})]

(***************************************************************************)
(* The import                                     src/App.tsx:95-133       *)
(***************************************************************************)
IsArray(v) == v.t = "arr"
\* a value used as a condition: null, false, 0 and "" are falsy
Truthy(v) ==
    /\ v.t \notin {"null", "false", "undefined"}
    /\ ~(v.t = "str" /\ v.s = <<>>)

\* a member of an imported element as the program later reads it: the string,
\* or a mark where the member is missing or no string
NotAString == <<"?">>
StringProp(v, key) == IF Prop(v, key).t = "str" THEN Prop(v, key).s ELSE NotAString

\* data.nodes and data.links as story state
ImportedNodes(data) ==
    LET arr == Prop(data, K_nodes).items
    IN  [i \in DOMAIN arr |-> StoryNode(StringProp(arr[i], K_id),
                                        StringProp(arr[i], K_title),
                                        StringProp(arr[i], K_content))]

ImportedLinks(data) ==
    LET arr == Prop(data, K_links).items
    IN  [i \in DOMAIN arr |-> StoryLink(StringProp(arr[i], K_id),
                                        StringProp(arr[i], K_source),
                                        StringProp(arr[i], K_target),
                                        StringProp(arr[i], K_label))]

\* the files the user picks
TxtEmpty == <<>>
TxtOpenBrace == <<"{">>
TxtNull == <<"n", "u", "l", "l">>
TxtNodesObject == <<"{", "\"", "n", "o", "d", "e", "s", "\"", ":", "{", "}", ",", "\"", "l", "i", "n", "k", "s", "\"", ":", "[", "]", "}">>
TxtCommented == <<"/", "/", " ", "s", NL, "/", "*", "m", "*", "/">>
                \o Stringify(<<StoryNode(<<"9">>, <<"h", ":", "/", "/", "x">>, <<>>)>>, <<>>)
TxtEmptyStory == Stringify(<<>>, <<>>)

ImportTexts ==
    {TxtEmpty, TxtOpenBrace, TxtNull, TxtNodesObject, TxtCommented, TxtEmptyStory}

\* files written by hand or by another tool: two nodes with one id; a link
\* and no node; a node and a link to a node that is missing
TxtTwins == Stringify(<<StoryNode(<<"8">>, <<"a">>, <<>>), StoryNode(<<"8">>, <<"b">>, <<>>)>>, <<>>)
TxtLinkOnly == Stringify(<<>>, <<StoryLink(<<"l">>, <<"1">>, <<"2">>, <<"g">>)>>)
TxtDangling == Stringify(<<StoryNode(<<"8">>, <<"a">>, <<>>)>>,
                         <<StoryLink(<<"l">>, <<"8">>, <<"9">>, <<"g">>)>>)
StoryTexts == {TxtTwins, TxtLinkOnly, TxtDangling, TxtEmptyStory}

\* JSON.parse(StripComments(txt)); the texts of the files are parsed once
ParsedImportTexts ==
    [txt \in ImportTexts \cup StoryTexts |-> JsonParse(StripComments(txt))]
ParseStripped(txt) ==
    IF txt \in DOMAIN ParsedImportTexts THEN ParsedImportTexts[txt]
    ELSE JsonParse(StripComments(txt))

\* reader.onload with the text of the chosen file; parsed is what
\* JSON.parse(jsonContent) gives for the stripped text
handleFileChange(rawContent) ==
    \E parsed \in {ParseStripped(rawContent)} :
        /\ UNCHANGED <<now, file>>
        /\ IF rawContent = <<>> THEN
               \* if (!rawContent) return;
               /\ alertMsg' = "none"
               /\ UNCHANGED <<nodes, links, selectedNodeId>>
           ELSE IF ~parsed.ok THEN
               \* JSON.parse throws: the catch block
               /\ alertMsg' = "parse error"
               /\ UNCHANGED <<nodes, links, selectedNodeId>>
           ELSE IF /\ Truthy(parsed.val)
                   /\ IsArray(Prop(parsed.val, K_nodes))
                   /\ IsArray(Prop(parsed.val, K_links))
           THEN
               /\ nodes' = ImportedNodes(parsed.val)
               /\ links' = ImportedLinks(parsed.val)
               /\ selectedNodeId' = Null
               /\ alertMsg' = "none"
           ELSE
               /\ alertMsg' = "invalid format"
               /\ UNCHANGED <<nodes, links, selectedNodeId>>

\* the handler set the story: it went past the empty text and showed no alert
ImportAccepted(rawContent) == rawContent # <<>> /\ alertMsg' = "none"

(***************************************************************************)
(* GraphVisualizer: topology analysis      src/components/GraphVisualizer  *)
(***************************************************************************)
\* a Record<string, number>, counted at one end of the links ("source" or
\* "target"): links.forEach(l => c[l[end]] = (c[l[end]] || 0) + 1)
RECURSIVE CountLinks(_, _, _, _)
CountLinks(counts, ls, end, i) ==
    IF i > Len(ls) THEN counts
    ELSE LET k == ls[i][end]
             old == IF k \in DOMAIN counts THEN counts[k] ELSE 0
         IN  CountLinks((k :> old + 1) @@ counts, ls, end, i + 1)

\* nodes.forEach(n => { incomingCount[n.id] = 0; outgoingCount[n.id] = 0; })
ZeroCounts(ns) == [id \in NodeIds(ns) |-> 0]

\* incomingCount with the links counted at their source
incomingCount_AtSource(ns, ls) == CountLinks(ZeroCounts(ns), ls, "source", 1)

incomingCount(ns, ls) == CountLinks(ZeroCounts(ns), ls, "target", 1)

outgoingCount(ns, ls) == CountLinks(ZeroCounts(ns), ls, "source", 1)

\* startNodes without the fallback to the first node
startNodes_NoFallback(ns, ls) ==
    LET inc == incomingCount(ns, ls)
    IN  SelectSeq(ns, LAMBDA n : inc[n.id] = 0)

startNodes(ns, ls) ==
    LET inc == incomingCount(ns, ls)
        zeroIn == SelectSeq(ns, LAMBDA n : inc[n.id] = 0)
    IN  IF Len(zeroIn) = 0 /\ Len(ns) > 0 THEN <<ns[1]>> ELSE zeroIn

\* the state of the leveling: startNodes, queue, visited and nodeLevels are the
\* code's; pushed lists every id put on the queue, in order; pc tells whether
\* the effect is before the loop, in it, or past the mapping to d3Nodes
NotLeveling == [pc |-> "idle", startNodes |-> <<>>, queue |-> <<>>, visited |-> {},
                nodeLevels |-> <<>>, pushed |-> <<>>, d3Nodes |-> <<>>]

\* StartLeveling seeding the queue with the first start node alone
StartLeveling_FirstOnly(ns, ls) ==
    LET start == SubSeq(startNodes(ns, ls), 1, 1)
    IN  [pc         |-> "loop",
         startNodes |-> start,
         queue      |-> [i \in DOMAIN start |-> [id |-> start[i].id, level |-> 0]],
         visited    |-> NodeIds(start),
         nodeLevels |-> <<>>,
         pushed     |-> [i \in DOMAIN start |-> start[i].id],
         d3Nodes    |-> <<>>]

StartLeveling(ns, ls) ==
    LET start == startNodes(ns, ls)
    IN  [pc         |-> "loop",
         startNodes |-> start,
         queue      |-> [i \in DOMAIN start |-> [id |-> start[i].id, level |-> 0]],
         visited    |-> NodeIds(start),
         nodeLevels |-> <<>>,
         pushed     |-> [i \in DOMAIN start |-> start[i].id],
         d3Nodes    |-> <<>>]

\* childLinks.forEach(l => { if (!visited.has(l.target)) { ... } })
RECURSIVE VisitChildren(_, _, _, _)
VisitChildren(st, childLinks, i, level) ==
    IF i > Len(childLinks) THEN st
    ELSE LET target == childLinks[i].target
         IN  IF target \in st.visited
             THEN VisitChildren(st, childLinks, i + 1, level)
             ELSE VisitChildren(
                    [st EXCEPT !.visited = @ \cup {target},
                               !.queue = Append(@, [id |-> target, level |-> level + 1]),
                               !.pushed = Append(@, target)],
                    childLinks, i + 1, level)

\* one iteration of while (queue.length > 0)
LevelStep(st, ls) ==
    LET head == Head(st.queue)
        shifted == [st EXCEPT !.queue = Tail(@),
                              !.nodeLevels = (head.id :> head.level) @@ @]
        childLinks == SelectSeq(ls, LAMBDA l : l.source = head.id)
    IN  VisitChildren(shifted, childLinks, 1, head.level)

RECURSIVE LevelLoop(_, _)
LevelLoop(st, ls) == IF st.queue = <<>> THEN st ELSE LevelLoop(LevelStep(st, ls), ls)

\* nodes.forEach(n => { if (nodeLevels[n.id] === undefined) nodeLevels[n.id] = 0; })
DefaultLevels(ns, levels) ==
    [id \in DOMAIN levels \cup NodeIds(ns) |->
        IF id \in DOMAIN levels THEN levels[id] ELSE 0]

nodeLevels(ns, ls) == DefaultLevels(ns, LevelLoop(StartLeveling(ns, ls), ls).nodeLevels)

(***************************************************************************)
(* GraphVisualizer: the data for D3 and the simulation                     *)
(***************************************************************************)
levelSpacing == 200
\* containerRef.current.clientWidth and clientHeight
clientWidth == 800
clientHeight == 600

\* Math.random() is 0 or 1/2: autoY is clientHeight / 2 - 50 or clientHeight / 2
RandomDraws == {0, 1}
autoX(level) == level * levelSpacing + 100
autoY(draw) == clientHeight \div 2 + (draw * 50 - 50)

\* fx and fy: null, or a coordinate
Unpinned == <<>>
Pinned(v) == <<v>>

\* nodePositionsRef.current is a Map from ids to { x, y, fx, fy }
CacheEntry(n) == [x |-> n.x, y |-> n.y, fx |-> n.fx, fy |-> n.fy]

\* one ExtendedD3Node; the title and the content carried by ...n are left out
d3Node(n, levels, inc, out, cache, fixed, draw) ==
    LET hit == n.id \in DOMAIN cache
        currentX == IF hit THEN cache[n.id].x ELSE autoX(levels[n.id])
        currentY == IF hit THEN cache[n.id].y ELSE autoY(draw)
    IN  [id      |-> n.id,
         level   |-> levels[n.id],
         isStart |-> inc[n.id] = 0,
         isEnd   |-> out[n.id] = 0,
         x       |-> currentX,
         y       |-> currentY,
         fx      |-> IF fixed THEN Pinned(currentX) ELSE Unpinned,
         fy      |-> IF fixed THEN Pinned(currentY) ELSE Unpinned]

\* Math.random() matters for the nodes without a cached position; the draws
\* of one run are followed where they agree
Draws(ns, cache) ==
    {[i \in {j \in DOMAIN ns : ns[j].id \notin DOMAIN cache} |-> draw] : draw \in RandomDraws}
DrawOf(draws, i) == IF i \in DOMAIN draws THEN draws[i] ELSE 0

\* d3Nodes reading no cached position
d3Nodes_ColdStart(ns, ls, levels, cache, fixed, draws) ==
    [i \in DOMAIN ns |->
        d3Node(ns[i], levels, incomingCount(ns, ls), outgoingCount(ns, ls),
               <<>>, fixed, DrawOf(draws, i))]

d3Nodes(ns, ls, levels, cache, fixed, draws) ==
    [i \in DOMAIN ns |->
        d3Node(ns[i], levels, incomingCount(ns, ls), outgoingCount(ns, ls),
               cache, fixed, DrawOf(draws, i))]

\* what one run of the effect leaves behind: the nodes given to
\* d3.forceSimulation, the isFixed its closures saw, whether the simulation's
\* timer is running, whether the 500 ms auto-fit timer is pending, and whether
\* a tick has placed the node groups (before the first tick they have no
\* transform and are drawn at the origin)
\* orphan tells whether an earlier simulation, restarted after its cleanup, was
\* still running when this one was made; thrown whether the run of the effect
\* ended in an exception
forceSimulation(ns, ls, cache, fixed, draws) ==
    [d3Nodes |-> d3Nodes(ns, ls, nodeLevels(ns, ls), cache, fixed, draws),
     isFixed |-> fixed,
     running |-> TRUE,
     timer   |-> TRUE,
     placed  |-> FALSE,
     orphan  |-> FALSE,
     thrown  |-> FALSE]

\* d3.forceLink(d3Links).id(d => d.id): initialize() looks up the source and
\* the target of every link among the nodes and throws "node not found" for
\* an id no node has
Dangling(ns, ls) ==
    \E i \in DOMAIN ls : ls[i].source \notin NodeIds(ns) \/ ls[i].target \notin NodeIds(ns)

\* the run of the effect that threw at simulation.force("link", ...): the svg
\* was cleared and holds an empty group, nothing was drawn, no tick listener, no
\* timer and no cleanup exist, and React unmounts the page on the uncaught error
Thrown(previous, fixed) ==
    [d3Nodes |-> <<>>,
     isFixed |-> fixed,
     running |-> FALSE,
     timer   |-> FALSE,
     placed  |-> FALSE,
     orphan  |-> previous.running \/ previous.orphan,
     thrown  |-> TRUE]

\* the page is on screen: no run of the effect has thrown
Mounted == ~simulation.thrown

\* d3.zoomIdentity; k is in thousandths
zoomIdentity == [k |-> 1000, x |-> 0, y |-> 0]

NoNode == [id |-> Null, level |-> 0, isStart |-> FALSE, isEnd |-> FALSE,
           x |-> 0, y |-> 0, fx |-> Unpinned, fy |-> Unpinned]
\* no drag gesture; a gesture records the index of its node in the drawing
\* and, once the drawing it began on was replaced, the node object and the
\* isFixed its handlers still hold
NoDrag == [on |-> FALSE, live |-> FALSE, index |-> 0, d |-> NoNode, isFixed |-> FALSE]
NoDrop == [on |-> FALSE, id |-> Null, x |-> 0, y |-> 0, count |-> 0]

\* return () => { simulation.stop(); clearTimeout(timer); }
Cleanup(sim) == [sim EXCEPT !.running = FALSE, !.timer = FALSE]

\* the gesture under way goes on with the handlers and the node object of the
\* drawing it began on
Detached(gesture, sim) ==
    IF gesture.on /\ gesture.live
    THEN [gesture EXCEPT !.live = FALSE, !.d = sim.d3Nodes[gesture.index],
                         !.isFixed = sim.isFixed]
    ELSE gesture

\* the ghost of the last drop is forgotten once its node is gone
KeptDrop(drop, ns) == IF drop.on /\ drop.id \in NodeIds(ns) THEN drop ELSE NoDrop

\* useEffect(() => {...}, [nodes, links, selectedNodeId, onNodeSelect, isFixed]),
\* run after a render that changed one of them.  The cleanup of the previous
\* run comes first; a run that returned early on an empty story left none.
\* A simulation restarted on a stale drawing and never stopped ticks before
\* the new one in every frame (d3-timer runs its timers in order), so what it
\* writes for the new simulation's nodes is overwritten in the same frame; of
\* it the new simulation records only that it runs (orphan).
useEffect ==
    LET previous == IF Len(nodes) > 0 THEN Cleanup(simulation) ELSE simulation
    IN  /\ dropped' = KeptDrop(IF isFixed' = isFixed THEN dropped ELSE NoDrop, nodes')
        /\ IF Len(nodes') = 0
           THEN /\ simulation' = previous
                /\ UNCHANGED <<nodePositionsRef, drag, zoom, gTransform>>
           ELSE IF Dangling(nodes', links')
           THEN /\ simulation' = Thrown(previous, isFixed')
                /\ gTransform' = zoomIdentity
                /\ drag' = NoDrag
                /\ UNCHANGED <<nodePositionsRef, zoom>>
           ELSE /\ \E draws \in Draws(nodes', nodePositionsRef) :
                      simulation' =
                          [forceSimulation(nodes', links', nodePositionsRef, isFixed', draws)
                              EXCEPT !.orphan = previous.running \/ previous.orphan]
                /\ gTransform' = zoomIdentity
                /\ drag' = Detached(drag, simulation)
                /\ UNCHANGED <<nodePositionsRef, zoom>>

\* StoryEditor: useState('') for the drafts, useState(false) for isAiLoading;
\* no call of generateStorySuggestion is awaited
NoRequest == [on |-> FALSE, node |-> Null]
NoEditor == [localTitle |-> <<>>, localContent |-> <<>>, isAiLoading |-> FALSE,
             request |-> NoRequest]

\* the selected node of this render and of the render to come, as a list that
\* is empty when the selection names no node
SelectedBefore == IF HasSelectedNode THEN <<SelectedNode>> ELSE <<>>
SelectedAfter ==
    IF selectedNodeId' \in NodeIds(nodes')
    THEN <<nodes'[MinOf({i \in DOMAIN nodes' : nodes'[i].id = selectedNodeId'})]>>
    ELSE <<>>

\* StoryEditor: useEffect(() => { if (selectedNode) {...} }, [selectedNode]),
\* applied to the editor state ed that the handler left: a selected node that
\* is not the one of the render before resets the drafts to its texts
SyncedEditor(ed) ==
    IF SelectedAfter # <<>> /\ SelectedAfter # SelectedBefore
    THEN [ed EXCEPT !.localTitle = SelectedAfter[1].title,
                    !.localContent = SelectedAfter[1].content]
    ELSE ed

\* the rerun of the effect after a handler that set nodes, links or the selection
Rerender ==
    /\ UNCHANGED <<isFixed, leveling>>
    /\ useEffect
    /\ editor' = SyncedEditor(editor)

\* the handler left nodes, links, the selection and isFixed as they were
NoRender == UNCHANGED <<isFixed, nodePositionsRef, simulation, drag, zoom, gTransform,
                        dropped, leveling, editor>>

(***************************************************************************)
(* GraphVisualizer: ticks and node drags                                   *)
(***************************************************************************)
\* where the forces carry the free nodes in one tick: onto the targets of
\* forceX(level * levelSpacing) and forceY(height / 2), or short of them by
\* this much; and where the pointer may be during a drag
TickOffsets == {<<0, 0>>, <<60, -20>>}
PointerSpots == {<<180, 320>>}

\* d3.forceX<ExtendedD3Node>(d => (d.level || 0) * levelSpacing): the x the
\* force of free mode pulls the node d to
forceXTarget(d) == d.level * levelSpacing

\* d3-force: a node with fx keeps x = fx, a free node moves
Moved(n, off) ==
    [n EXCEPT !.x = IF n.fx = Unpinned THEN forceXTarget(n) + off[1] ELSE n.fx[1],
              !.y = IF n.fy = Unpinned THEN clientHeight \div 2 + off[2] ELSE n.fy[1]]

\* d3Nodes.forEach(n => nodePositionsRef.current.set(n.id, {...}))
RECURSIVE SetAll(_, _, _)
SetAll(cache, ns, i) ==
    IF i > Len(ns) THEN cache
    ELSE SetAll((ns[i].id :> CacheEntry(ns[i])) @@ cache, ns, i + 1)

\* simulation.on("tick", ...): the simulation has moved its nodes, the handler
\* caches the positions and places the node groups
tick ==
    /\ simulation.running
    /\ \E off \in TickOffsets :
          LET moved == [i \in DOMAIN simulation.d3Nodes |->
                            Moved(simulation.d3Nodes[i], off)]
          IN  /\ simulation' = [simulation EXCEPT !.d3Nodes = moved, !.placed = TRUE]
              /\ nodePositionsRef' = SetAll(nodePositionsRef, moved, 1)
    /\ UNCHANGED <<nodes, links, selectedNodeId, now, file, alertMsg, editor>>
    /\ UNCHANGED <<isFixed, drag, zoom, gTransform, dropped, leveling>>

\* dragstarted on the i-th node group of the drawing; event.active is 0 for
\* the one pointer, so the simulation of the drawing is restarted
dragstarted(i) ==
    LET d == simulation.d3Nodes[i]
    IN  /\ ~drag.on
        /\ simulation' = [simulation EXCEPT !.running = TRUE,
                                            !.d3Nodes[i].fx = Pinned(d.x),
                                            !.d3Nodes[i].fy = Pinned(d.y)]
        /\ drag' = [NoDrag EXCEPT !.on = TRUE, !.live = TRUE, !.index = i]
        /\ dropped' = IF dropped.on /\ dropped.id = d.id THEN NoDrop ELSE dropped
        /\ UNCHANGED <<nodes, links, selectedNodeId, now, file, alertMsg, editor>>
        /\ UNCHANGED <<isFixed, nodePositionsRef, zoom, gTransform, leveling>>

dragged(spot) ==
    /\ drag.on
    /\ IF drag.live
       THEN /\ simulation' = [simulation EXCEPT !.d3Nodes[drag.index].fx = Pinned(spot[1]),
                                                !.d3Nodes[drag.index].fy = Pinned(spot[2])]
            /\ UNCHANGED drag
       ELSE /\ drag' = [drag EXCEPT !.d.fx = Pinned(spot[1]), !.d.fy = Pinned(spot[2])]
            /\ UNCHANGED simulation
    /\ UNCHANGED <<nodes, links, selectedNodeId, now, file, alertMsg, editor>>
    /\ UNCHANGED <<isFixed, nodePositionsRef, zoom, gTransform, dropped, leveling>>

\* Released keeping the pin whatever the mode
Released_KeepsPin(d, fixed) ==
    [d EXCEPT !.fx = Pinned(d.x),
              !.fy = Pinned(d.y)]

\* the node object after dragended, for the isFixed its handler holds
Released(d, fixed) ==
    [d EXCEPT !.fx = IF fixed THEN Pinned(d.x) ELSE Unpinned,
              !.fy = IF fixed THEN Pinned(d.y) ELSE Unpinned]

\* dragended without the update of the cache
dragended_NoCacheUpdate ==
    LET d == IF drag.live THEN simulation.d3Nodes[drag.index] ELSE drag.d
        fixed == IF drag.live THEN simulation.isFixed ELSE drag.isFixed
        released == Released(d, fixed)
    IN  /\ drag.on
        /\ simulation' = IF drag.live
                         THEN [simulation EXCEPT !.d3Nodes[drag.index] = released]
                         ELSE simulation
        /\ nodePositionsRef' = nodePositionsRef
        /\ drag' = NoDrag
        /\ dropped' = IF drag.live /\ fixed /\ isFixed /\ d.id \in NodeIds(nodes)
                      THEN [on |-> TRUE, id |-> d.id, x |-> d.x, y |-> d.y, count |-> Len(nodes)]
                      ELSE dropped
        /\ UNCHANGED <<nodes, links, selectedNodeId, now, file, alertMsg, editor>>
        /\ UNCHANGED <<isFixed, zoom, gTransform, leveling>>

dragended ==
    LET d == IF drag.live THEN simulation.d3Nodes[drag.index] ELSE drag.d
        fixed == IF drag.live THEN simulation.isFixed ELSE drag.isFixed
        released == Released(d, fixed)
    IN  /\ drag.on
        /\ simulation' = IF drag.live
                         THEN [simulation EXCEPT !.d3Nodes[drag.index] = released]
                         ELSE simulation
        /\ nodePositionsRef' = (d.id :> CacheEntry(released)) @@ nodePositionsRef
        /\ drag' = NoDrag
        /\ dropped' = IF drag.live /\ fixed /\ isFixed /\ d.id \in NodeIds(nodes)
                      THEN [on |-> TRUE, id |-> d.id, x |-> d.x, y |-> d.y, count |-> Len(nodes)]
                      ELSE dropped
        /\ UNCHANGED <<nodes, links, selectedNodeId, now, file, alertMsg, editor>>
        /\ UNCHANGED <<isFixed, zoom, gTransform, leveling>>

\* const toggleFixedMode = () => setIsFixed(prev => !prev), and the effect
toggleFixedMode ==
    /\ isFixed' = ~isFixed
    /\ UNCHANGED <<nodes, links, selectedNodeId, now, file, alertMsg, leveling, editor>>
    /\ useEffect

(***************************************************************************)
(* GraphVisualizer: the view                                               *)
(***************************************************************************)
\* the radius of a node's circle: d.isStart || d.isEnd ? 24 : 20
Radius(n) == IF n.isStart \/ n.isEnd THEN 24 ELSE 20

\* g.getBBox(): the hull of the circles (labels and strokes left out); a node
\* group is at the origin until a tick has given it a transform
\* the box of a group with nothing drawn in it is all zeros
BBox(sim) ==
    LET ns == sim.d3Nodes
        px(i) == IF sim.placed THEN ns[i].x ELSE 0
        py(i) == IF sim.placed THEN ns[i].y ELSE 0
        left == MinOf({px(i) - Radius(ns[i]) : i \in DOMAIN ns})
        right == MaxOf({px(i) + Radius(ns[i]) : i \in DOMAIN ns})
        top == MinOf({py(i) - Radius(ns[i]) : i \in DOMAIN ns})
        bottom == MaxOf({py(i) + Radius(ns[i]) : i \in DOMAIN ns})
    IN  IF ns = <<>> THEN [x |-> 0, y |-> 0, width |-> 0, height |-> 0]
        ELSE [x |-> left, y |-> top, width |-> right - left, height |-> bottom - top]

\* scale = 0.9 / Math.max(bounds.width / fullWidth, bounds.height / fullHeight)
\* d3.zoomIdentity.translate(translate[0], translate[1]).scale(scale)
FitTransform(bounds) ==
    LET scale == MinOf({(900 * clientWidth) \div bounds.width,
                        (900 * clientHeight) \div bounds.height})
    IN  [k |-> scale,
         x |-> clientWidth \div 2 - (scale * (2 * bounds.x + bounds.width)) \div (2 * 1000),
         y |-> clientHeight \div 2 - (scale * (2 * bounds.y + bounds.height)) \div (2 * 1000)]

\* the timer callback fitting the view whatever the cache holds
autoFit_Unconditional ==
    /\ simulation.timer
    /\ simulation' = [simulation EXCEPT !.timer = FALSE]
    /\ zoom' = FitTransform(BBox(simulation))
    /\ gTransform' = zoom'
    /\ UNCHANGED <<nodes, links, selectedNodeId, now, file, alertMsg, editor>>
    /\ UNCHANGED <<isFixed, nodePositionsRef, drag, dropped, leveling>>

\* the callback of setTimeout(..., 500); zoom.transform does not clamp the
\* scale, and the zoom's listener copies the transform to the group
autoFit ==
    /\ simulation.timer
    /\ simulation' = [simulation EXCEPT !.timer = FALSE]
    /\ IF DOMAIN nodePositionsRef # {}
       THEN UNCHANGED <<zoom, gTransform>>
       ELSE /\ zoom' = FitTransform(BBox(simulation))
            /\ gTransform' = zoom'
    /\ UNCHANGED <<nodes, links, selectedNodeId, now, file, alertMsg, editor>>
    /\ UNCHANGED <<isFixed, nodePositionsRef, drag, dropped, leveling>>

\* the scaleExtent of the effect's zoom, in thousandths; a d3.zoom() made
\* afresh has [0, Infinity]
MinScale == 100
MaxScale == 4000

\* d3-zoom scale(): Math.max(scaleExtent[0], Math.min(scaleExtent[1], k))
Clamped(k, limited) ==
    IF limited THEN MaxOf({MinScale, MinOf({MaxScale, k})}) ELSE MaxOf({0, k})

\* d3-zoom scaleTo about the centre of the viewport:
\* translate(scale(t0, k1), p0, t0.invert(p0))
ScaleTo(t, k, limited) ==
    LET k1 == Clamped(k, limited)
        p1x == ((clientWidth \div 2 - t.x) * 1000) \div t.k
        p1y == ((clientHeight \div 2 - t.y) * 1000) \div t.k
    IN  [k |-> k1,
         x |-> clientWidth \div 2 - (p1x * k1) \div 1000,
         y |-> clientHeight \div 2 - (p1y * k1) \div 1000]

\* the largest and the smallest scale followed
ScaleCeiling == 12000
ScaleFloor == 50

\* d3.select(svgRef.current).transition().call(d3.zoom().scaleBy, 1.2): the
\* zoom made here has no scaleExtent and no listener, so only the transform
\* kept on the svg changes
handleZoomIn ==
    /\ (zoom.k * 6) \div 5 <= ScaleCeiling
    /\ zoom' = ScaleTo(zoom, (zoom.k * 6) \div 5, FALSE)
    /\ UNCHANGED <<nodes, links, selectedNodeId, now, file, alertMsg, editor>>
    /\ UNCHANGED <<isFixed, nodePositionsRef, simulation, drag, gTransform, dropped, leveling>>

handleZoomOut ==
    /\ (zoom.k * 4) \div 5 >= ScaleFloor
    /\ zoom' = ScaleTo(zoom, (zoom.k * 4) \div 5, FALSE)
    /\ UNCHANGED <<nodes, links, selectedNodeId, now, file, alertMsg, editor>>
    /\ UNCHANGED <<isFixed, nodePositionsRef, simulation, drag, gTransform, dropped, leveling>>

\* if (!svgRef.current || nodes.length === 0) return
handleCenter ==
    /\ zoom' = IF Len(nodes) = 0 THEN zoom ELSE zoomIdentity
    /\ UNCHANGED <<nodes, links, selectedNodeId, now, file, alertMsg, editor>>
    /\ UNCHANGED <<isFixed, nodePositionsRef, simulation, drag, gTransform, dropped, leveling>>

\* a wheel gesture on the svg, handled by the effect's zoom: the scale is
\* doubled or halved within the scaleExtent, and the listener updates the group
WheelFactors == {<<2, 1>>, <<1, 2>>}
wheeled(factor) ==
    /\ zoom' = ScaleTo(zoom, (zoom.k * factor[1]) \div factor[2], TRUE)
    /\ gTransform' = zoom'
    /\ UNCHANGED <<nodes, links, selectedNodeId, now, file, alertMsg, editor>>
    /\ UNCHANGED <<isFixed, nodePositionsRef, simulation, drag, dropped, leveling>>

\* a pan of the background, handled by the effect's zoom: translate() keeps
\* the scale it finds on the svg
PanMoves == {<<40, -30>>}
mousemoved(by) ==
    /\ zoom' = [zoom EXCEPT !.x = @ + by[1], !.y = @ + by[2]]
    /\ gTransform' = zoom'
    /\ UNCHANGED <<nodes, links, selectedNodeId, now, file, alertMsg, editor>>
    /\ UNCHANGED <<isFixed, nodePositionsRef, simulation, drag, dropped, leveling>>

(***************************************************************************)
(* The image and the document export          src/unnamed/part_000:51-170  *)
(***************************************************************************)
padding == 50
Canvas == "canvas"

\* svgToCanvas: the first <g> of the svg is the group of the last drawing,
\* which the page has from its first render on; loads tells whether the
\* browser loads the serialized svg as an image
svgToCanvas(sim, loads) ==
    LET bbox == BBox(sim)
        width == bbox.width + padding * 2
        height == bbox.height + padding * 2
    IN  IF width <= 0 \/ height <= 0 THEN "Graph is empty or not rendered."
        ELSE IF loads THEN Canvas
        ELSE "Failed to load SVG image for export."

PngFile == <<"story-visual-map.png">>
PdfFile == <<"story-visual-map.pdf">>

\* downloadImage / downloadPDF: the file saved, or the alert of the catch
download(result, artifact) ==
    /\ IF result = Canvas
       THEN file' = artifact /\ alertMsg' = "none"
       ELSE file' = file /\ alertMsg' = result
    /\ UNCHANGED <<nodes, links, selectedNodeId, now>>

handleExportImage == \E loads \in BOOLEAN : download(svgToCanvas(simulation, loads), PngFile)

handleExportPDF == \E loads \in BOOLEAN : download(svgToCanvas(simulation, loads), PdfFile)

(***************************************************************************)
(* The page                                                                *)
(***************************************************************************)
\* the clock when the page loads: later than the ids of the initial story
InitialClock == Len(initialNodes) + 1


\* an id that no node has
AbsentId == <<"0">>

\* the page after its first render: the initial story, drawn by the first run
\* of the effect
Init ==
    /\ nodes = initialNodes
    /\ links = initialLinks
    /\ selectedNodeId = Null
    /\ now = InitialClock
    /\ file = NoFile
    /\ alertMsg = "none"
    /\ isFixed = FALSE
    /\ nodePositionsRef = <<>>
    /\ \E draws \in Draws(initialNodes, <<>>) :
          simulation = forceSimulation(initialNodes, initialLinks, <<>>, FALSE, draws)
    /\ drag = NoDrag
    /\ zoom = zoomIdentity
    /\ gTransform = zoomIdentity
    /\ dropped = NoDrop
    /\ leveling = NotLeveling
    /\ editor = NoEditor
    /\ events = 0

\* StoryEditor: onCreateNode() with nothing selected, and with a node selected
\* onCreateNode(`'${selectedNode.title}'...`), whose title is abbreviated to the
\* same letter
CreateNode == handleCreateNode(DefaultTitle, <<>>) /\ Rerender

\* StoryEditor.handleSave: onUpdateNode({...selectedNode, title: localTitle, content: localContent}),
\* with the drafts the user typed before the text area lost the focus
EditorSave ==
    /\ HasSelectedNode
    /\ \E t \in EditTitles, c \in EditContents :
          /\ handleUpdateNode(StoryNode(SelectedNode.id, t, c))
          /\ editor' = SyncedEditor([editor EXCEPT !.localTitle = t, !.localContent = c])
    /\ UNCHANGED <<isFixed, leveling>>
    /\ useEffect

\* onDeleteNode: the editor passes the selected node's id; the handler takes any id
DeleteNode ==
    /\ \E id \in NodeIds(nodes) \cup {AbsentId} : handleDeleteNode(id)
    /\ Rerender

\* StoryEditor.handleAddLink: if (selectedNode && newLinkTargetId && newLinkLabel)
EditorAddLink ==
    /\ HasSelectedNode
    /\ \E target \in NodeIds(nodes) \ {selectedNodeId}, label \in LinkLabels :
          handleAddLink(SelectedNode.id, target, label)
    /\ Rerender

\* the remove button of one of the selected node's outgoing links
EditorRemoveLink ==
    /\ HasSelectedNode
    /\ \E i \in DOMAIN links :
          /\ links[i].source = selectedNodeId
          /\ handleRemoveLink(links[i].id)
    /\ Rerender

\* a click on a circle of the drawing: onNodeSelect(d.id); setting the
\* selection to what it is renders nothing
SelectNode ==
    \E i \in DOMAIN simulation.d3Nodes :
        /\ onNodeSelect(simulation.d3Nodes[i].id)
        /\ IF selectedNodeId' = selectedNodeId THEN NoRender ELSE Rerender

\* the reader's onload; a rejected file sets no state
ImportFile ==
    \E txt \in ImportTexts :
        /\ handleFileChange(txt)
        /\ IF ImportAccepted(txt) THEN Rerender ELSE NoRender

ExportJSON == handleExportJSON /\ NoRender
ExportImage == handleExportImage /\ NoRender
ExportPDF == handleExportPDF /\ NoRender

\* one more event is handled, while the model's budget of events lasts
Event ==
    /\ Mounted
    /\ events < MaxEvents
    /\ events' = events + 1

(***************************************************************************)
(* Spec: the story under the editor's calls and the import                 *)
(***************************************************************************)
Next ==
    \/ Event /\ ClockTick /\ NoRender
    \/ Event /\ CreateNode
    \/ Event /\ EditorSave
    \/ Event /\ DeleteNode
    \/ Event /\ EditorAddLink
    \/ Event /\ EditorRemoveLink
    \/ Event /\ SelectNode
    \/ Event /\ ImportFile

Spec == Init /\ [][Next]_vars

(***************************************************************************)
(* Properties of the story handlers                                        *)
(***************************************************************************)
\* the elements of seq at the positions in S, in their order
Restrict(seq, S) ==
    [k \in 1..Cardinality(S) |->
        seq[CHOOSE i \in S : Cardinality({j \in S : j < i}) = k - 1]]

\* C1: handleDeleteNode(id) removes exactly the nodes with that id and exactly
\* the links whose source or target is id, keeps every other node and link as
\* it was and in its place, and sets the selection to null if id was selected
\* and leaves it otherwise.
C1_DeleteRemovesExactly ==
    [][\A id \in NodeIds(nodes) \cup {AbsentId} :
        handleDeleteNode(id) =>
            /\ nodes' = Restrict(nodes, {i \in DOMAIN nodes : nodes[i].id # id})
            /\ links' = Restrict(links, {i \in DOMAIN links :
                                    links[i].source # id /\ links[i].target # id})
            /\ selectedNodeId' = (IF selectedNodeId = id THEN Null ELSE selectedNodeId)
      ]_vars

\* node 1 of the initial story, the source of both links, has been deleted
C1_Witness ==
    /\ events = 1
    /\ nodes = <<initialNodes[2], initialNodes[3]>>
    /\ links = <<>>
    /\ selectedNodeId = Null

\* the text does not parse, or the parsed payload lacks an array nodes or links
Malformed(txt) ==
    LET p == JsonParse(StripComments(txt))
    IN  \/ ~p.ok
        \/ ~(IsArray(Prop(p.val, K_nodes)) /\ IsArray(Prop(p.val, K_links)))

\* C2: an import whose text fails to parse, or whose payload lacks an array
\* nodes or links, shows the user an error and leaves nodes, links and the
\* selection as they were.
C2_MalformedImportReported ==
    [][\A txt \in ImportTexts :
        (handleFileChange(txt) /\ Malformed(txt)) =>
            /\ alertMsg' # "none"
            /\ UNCHANGED <<nodes, links, selectedNodeId>>
      ]_vars

\* what does hold of a malformed import: the story is kept, and an error is
\* shown unless the text is empty
C2_MalformedImportKeepsStory ==
    [][\A txt \in ImportTexts :
        (handleFileChange(txt) /\ Malformed(txt)) =>
            /\ (txt # <<>> => alertMsg' # "none")
            /\ UNCHANGED <<nodes, links, selectedNodeId>>
      ]_vars

(***************************************************************************)
(* SpecJson: a story is exported with downloadJSON and the file written is *)
(* imported again.  The story is any one node and at most one link whose   *)
(* title, body and label are typed by the user.                            *)
(***************************************************************************)
\* the characters typed, and the longest title or body
TypedChars == {"a", QUOTE, BSLASH, SLASH}
MaxTextLen == 2

TextsUpTo(n) == UNION {[1..k -> TypedChars] : k \in 0..n}

InitJson ==
    /\ \E title \in TextsUpTo(MaxTextLen), content \in TextsUpTo(MaxTextLen) :
          nodes = <<StoryNode(<<"1">>, title, content)>>
    /\ \/ links = <<>>
       \/ \E label \in TextsUpTo(1) :
             links = <<StoryLink(<<"7">>, <<"1">>, <<"1">>, label)>>
    /\ selectedNodeId = Null
    /\ now = InitialClock
    /\ file = NoFile
    /\ alertMsg = "none"
    /\ isFixed = FALSE
    /\ nodePositionsRef = <<>>
    /\ simulation = forceSimulation(nodes, links, <<>>, FALSE, [i \in DOMAIN nodes |-> 0])
    /\ drag = NoDrag
    /\ zoom = zoomIdentity
    /\ gTransform = zoomIdentity
    /\ dropped = NoDrop
    /\ leveling = NotLeveling
    /\ editor = NoEditor
    /\ events = 0

\* the file written by the export is picked for import
ImportExportedFile ==
    /\ file # NoFile
    /\ handleFileChange(file)
    /\ IF ImportAccepted(file) THEN Rerender ELSE NoRender

NextJson ==
    \/ ExportJSON /\ UNCHANGED events
    \/ ImportExportedFile /\ UNCHANGED events

SpecJson == InitJson /\ [][NextJson]_vars

LinkTriples(ls) == {<<ls[i].source, ls[i].target, ls[i].label>> : i \in DOMAIN ls}

\* C3: the text written by the JSON export of a story, given to the import
\* (comment stripping, then parse), is accepted and yields a story with the
\* same node ids, titles and bodies and the same set of link (source, target,
\* label) triples, whatever quotes, backslashes and slashes the texts hold.
C3_RoundTrip ==
    [][(file = downloadJSON(nodes, links) /\ handleFileChange(file)) =>
            /\ alertMsg' = "none"
            /\ nodes' = nodes
            /\ LinkTriples(links') = LinkTriples(links)
      ]_vars

(***************************************************************************)
(* SpecTopo: the topology analysis and the leveling of one run of the      *)
(* effect (GraphVisualizer.tsx:45-109), followed step by step on any story *)
(* of a few nodes and links an import can set                              *)
(***************************************************************************)
TopoIds == {<<"1">>, <<"2">>, <<"3">>}
MaxTopoNodes == 3
MaxTopoLinks == 3

TopoNodes ==
    UNION {[1..k -> {StoryNode(id, <<>>, <<>>) : id \in TopoIds}] : k \in 1..MaxTopoNodes}
TopoLinks ==
    UNION {[1..k -> {StoryLink(<<"l">>, s, t, <<>>) : s \in TopoIds, t \in TopoIds}] :
              k \in 0..MaxTopoLinks}

InitTopo ==
    /\ nodes \in TopoNodes
    /\ links \in TopoLinks
    /\ selectedNodeId = Null
    /\ now = InitialClock
    /\ file = NoFile
    /\ alertMsg = "none"
    /\ isFixed = FALSE
    /\ nodePositionsRef = [id \in TopoIds |-> [x |-> 100, y |-> 250, fx |-> Unpinned, fy |-> Unpinned]]
    /\ simulation = forceSimulation(initialNodes, initialLinks, nodePositionsRef, FALSE, <<>>)
    /\ drag = NoDrag
    /\ zoom = zoomIdentity
    /\ gTransform = zoomIdentity
    /\ dropped = NoDrop
    /\ leveling = NotLeveling
    /\ editor = NoEditor
    /\ events = 0

TopoFrame == UNCHANGED <<nodes, links, selectedNodeId, now, file, alertMsg, editor, isFixed,
                         nodePositionsRef, simulation, drag, zoom, gTransform, dropped, events>>

\* lines 45-66: the counts, startNodes, the queue and visited
Analyze ==
    /\ leveling.pc = "idle"
    /\ leveling' = StartLeveling(nodes, links)
    /\ TopoFrame

\* lines 68-79: one turn of the loop
Dequeue ==
    /\ leveling.pc = "loop"
    /\ leveling.queue # <<>>
    /\ leveling' = LevelStep(leveling, links)
    /\ TopoFrame

\* lines 81-109: the loop is left, the defaults are set, the nodes are mapped
Prepare ==
    /\ leveling.pc = "loop"
    /\ leveling.queue = <<>>
    /\ \E draws \in Draws(nodes, nodePositionsRef) :
          LET levels == DefaultLevels(nodes, leveling.nodeLevels)
          IN  leveling' = [leveling EXCEPT
                  !.pc = "done",
                  !.nodeLevels = levels,
                  !.d3Nodes = d3Nodes(nodes, links, levels, nodePositionsRef, isFixed, draws)]
    /\ TopoFrame

NextTopo ==
    \/ Analyze
    \/ Dequeue
    \/ Prepare

\* the effect is synchronous code: it runs on while it has a step to take
SpecTopo == InitTopo /\ [][NextTopo]_vars /\ WF_vars(NextTopo)

\* the number of links that target / leave the node with this id
Incoming(id) == Cardinality({j \in DOMAIN links : links[j].target = id})
Outgoing(id) == Cardinality({j \in DOMAIN links : links[j].source = id})

NoZeroIncoming == nodes # <<>> /\ \A i \in DOMAIN nodes : Incoming(nodes[i].id) > 0

\* what C6 asks of every state of the leveling
C6_SoleStart ==
    leveling.pc # "idle" =>
        /\ leveling.startNodes = <<nodes[1]>>
        /\ \A i, j \in DOMAIN leveling.pushed :
              leveling.pushed[i] = leveling.pushed[j] => i = j
        /\ leveling.pc = "done" =>
              \A i \in DOMAIN nodes :
                  /\ nodes[i].id \in DOMAIN leveling.nodeLevels
                  /\ leveling.nodeLevels[nodes[i].id] >= 0
                  /\ leveling.d3Nodes[i].level = leveling.nodeLevels[nodes[i].id]

\* C6: for every non-empty graph in which no node has incomingCount 0
\* (self-loops and cycles included) the first node of the collection is the
\* sole start of the leveling, every id is put on the queue at most once, the
\* loop ends, and every node ends with a level >= 0.
C6_CyclicLeveling ==
    /\ [](NoZeroIncoming => C6_SoleStart)
    /\ (NoZeroIncoming ~> leveling.pc = "done")

\* a cycle over three nodes has been leveled from its first node
C6_Witness ==
    /\ NoZeroIncoming
    /\ leveling.pc = "done"
    /\ Cardinality(NodeIds(nodes)) = 3
    /\ Len(leveling.pushed) = 3
    /\ leveling.nodeLevels[nodes[1].id] = 0
    /\ \E i \in DOMAIN nodes : leveling.nodeLevels[nodes[i].id] = 2

\* C7: for every graph, the nodes flagged isStart are those that no link
\* targets and the nodes flagged isEnd are those that no link leaves; a node
\* without links is both.
C7_StartEndFlags ==
    leveling.pc = "done" =>
        \A i \in DOMAIN nodes :
            /\ leveling.d3Nodes[i].isStart <=> (Incoming(nodes[i].id) = 0)
            /\ leveling.d3Nodes[i].isEnd <=> (Outgoing(nodes[i].id) = 0)

\* one link between two nodes and a third node without links, all flagged
C7_Witness ==
    /\ leveling.pc = "done"
    /\ Len(nodes) = 3
    /\ Len(links) = 1
    /\ \E i, j, k \in DOMAIN nodes :
          /\ leveling.d3Nodes[i].isStart /\ ~leveling.d3Nodes[i].isEnd
          /\ ~leveling.d3Nodes[j].isStart /\ leveling.d3Nodes[j].isEnd
          /\ leveling.d3Nodes[k].isStart /\ leveling.d3Nodes[k].isEnd

(***************************************************************************)
(* SpecGraph: the page with its graph: the edits that redraw it, the       *)
(* simulation's ticks, node drags, the fixed mode, the auto-fit timer and  *)
(* the image and document exports                                          *)
(***************************************************************************)
MaxGraphEvents == 5

GraphEvent ==
    /\ events < MaxGraphEvents
    /\ events' = events + 1

\* StoryEditor: onDeleteNode(selectedNode.id)
EditorDelete ==
    /\ HasSelectedNode
    /\ handleDeleteNode(SelectedNode.id)
    /\ Rerender

NextGraph ==
    \/ GraphEvent /\ CreateNode
    \/ GraphEvent /\ SelectNode
    \/ GraphEvent /\ toggleFixedMode
    \/ GraphEvent /\ \E i \in DOMAIN simulation.d3Nodes : dragstarted(i)
    \/ GraphEvent /\ \E spot \in PointerSpots : dragged(spot)
    \/ GraphEvent /\ dragended
    \/ tick /\ UNCHANGED events
    \/ autoFit /\ UNCHANGED events

SpecGraph == Init /\ [][NextGraph]_vars

\* the nodes of the drawing with this id
Drawn(id) == {i \in DOMAIN simulation.d3Nodes : simulation.d3Nodes[i].id = id}

\* C4: in fixed mode, a node dropped at the end of a drag stays where it was
\* dropped, pinned there, through every later tick and every redraw that a
\* structural edit (the creation of another node) causes, while the fixed
\* mode stays on and the node is not dragged again.
C4_DroppedNodeStays ==
    (dropped.on /\ Cardinality({i \in DOMAIN nodes : nodes[i].id = dropped.id}) = 1) =>
        /\ Drawn(dropped.id) # {}
        /\ \A i \in Drawn(dropped.id) :
              /\ simulation.d3Nodes[i].x = dropped.x
              /\ simulation.d3Nodes[i].y = dropped.y
              /\ simulation.d3Nodes[i].fx = Pinned(dropped.x)
              /\ simulation.d3Nodes[i].fy = Pinned(dropped.y)

\* a node was dragged to the pointer's spot and dropped there in fixed mode,
\* a node was created afterwards, and the new simulation has ticked
C4_Witness ==
    /\ dropped.on
    /\ <<dropped.x, dropped.y>> \in PointerSpots
    /\ Len(nodes) = dropped.count + 1
    /\ Len(simulation.d3Nodes) = Len(nodes)
    /\ simulation.placed
    /\ isFixed

\* the redraw of an unchanged graph: the effect has run again on the same
\* nodes and links (after a change of the selection or of the mode)
RedrawUnchanged ==
    /\ nodes' = nodes
    /\ links' = links
    /\ nodes # <<>>
    /\ (selectedNodeId' # selectedNodeId \/ isFixed' # isFixed)

AllCached == \A i \in DOMAIN nodes : nodes[i].id \in DOMAIN nodePositionsRef

\* C5: a redraw of an unchanged graph whose nodes all have an entry in the
\* position cache starts every node at its cached (x, y) and leaves the
\* entries of the cache as they are.
C5_WarmRedrawKeepsPositions ==
    [][(RedrawUnchanged /\ AllCached) =>
            /\ nodePositionsRef' = nodePositionsRef
            /\ \A i \in DOMAIN nodes :
                  /\ simulation'.d3Nodes[i].x = nodePositionsRef[nodes[i].id].x
                  /\ simulation'.d3Nodes[i].y = nodePositionsRef[nodes[i].id].y
      ]_vars

\* the graph has been redrawn twice since its nodes were cached away from
\* where the layout would start them
C5_Witness ==
    /\ AllCached
    /\ Len(nodes) = 3
    /\ isFixed
    /\ selectedNodeId # Null
    /\ ~simulation.placed
    /\ \E i \in DOMAIN simulation.d3Nodes :
          simulation.d3Nodes[i].x # autoX(simulation.d3Nodes[i].level)

\* C10: once the position cache holds an entry, nothing changes the transform
\* of the view: the auto-fit timer of no later redraw applies a transform.
C10_AutoFitOnlyOnEmptyCache ==
    [][DOMAIN nodePositionsRef # {} => zoom' = zoom]_vars

\* the timer of a redraw has fired with entries in the cache and the view
\* still has the transform it had
C10_Witness ==
    /\ DOMAIN nodePositionsRef # {}
    /\ selectedNodeId # Null
    /\ ~simulation.timer
    /\ ~simulation.placed
    /\ simulation.running
    /\ zoom = zoomIdentity

(***************************************************************************)
(* SpecExport: the page with the edits that empty the story (the deletion  *)
(* of the selected node, the import of an empty story) and the image and   *)
(* document exports                                                        *)
(***************************************************************************)
MaxExportEvents == 7

ExportEvent ==
    /\ events < MaxExportEvents
    /\ events' = events + 1

\* the import of a file holding the empty story
ImportEmptyStory ==
    /\ handleFileChange(TxtEmptyStory)
    /\ IF ImportAccepted(TxtEmptyStory) THEN Rerender ELSE NoRender

NextExport ==
    \/ ExportEvent /\ SelectNode
    \/ ExportEvent /\ EditorDelete
    \/ ExportEvent /\ ImportEmptyStory
    \/ ExportEvent /\ ExportImage
    \/ ExportEvent /\ ExportPDF
    \/ tick /\ UNCHANGED events

SpecExport == Init /\ [][NextExport]_vars

\* C8: whenever the story has no node, asking for the image or the document
\* export fails with an error shown to the user and writes no file.
C8_EmptyStoryExportFails ==
    [][(nodes = <<>> /\ (ExportImage \/ ExportPDF)) =>
            (alertMsg' # "none" /\ file' = file)]_vars

\* what the exports do on the empty story: the group of the last drawing is
\* still in the svg, and a file is written unless the image fails to load
C8_EmptyStoryExportWritesFile ==
    [][(nodes = <<>> /\ (ExportImage \/ ExportPDF) /\ alertMsg' = "none") =>
            file' \in {PngFile, PdfFile}]_vars

(***************************************************************************)
(* SpecView: the page with the operations on the view: the zoom buttons,   *)
(* the wheel, the pan, the reset, the auto-fit and a redraw                *)
(***************************************************************************)
MaxViewEvents == 4

ViewEvent ==
    /\ events < MaxViewEvents
    /\ events' = events + 1

NextView ==
    \/ ViewEvent /\ handleZoomIn
    \/ ViewEvent /\ handleZoomOut
    \/ ViewEvent /\ handleCenter
    \/ ViewEvent /\ \E factor \in WheelFactors : wheeled(factor)
    \/ ViewEvent /\ \E by \in PanMoves : mousemoved(by)
    \/ ViewEvent /\ autoFit
    \/ ViewEvent /\ tick
    \/ ViewEvent /\ toggleFixedMode

SpecView == Init /\ [][NextView]_vars

\* C9: after any sequence of operations on the view, the scale kept for the
\* view and the scale of the drawn group are within [0.1, 4].
C9_ScaleBounded ==
    /\ MinScale <= zoom.k /\ zoom.k <= MaxScale
    /\ MinScale <= gTransform.k /\ gTransform.k <= MaxScale

(***************************************************************************)
(* SpecEdit: the page with gestures on the view between edits of the story *)
(***************************************************************************)
MaxEditEvents == 4

EditEvent ==
    /\ Mounted
    /\ events < MaxEditEvents
    /\ events' = events + 1

NextEdit ==
    \/ EditEvent /\ \E factor \in WheelFactors : wheeled(factor)
    \/ EditEvent /\ \E by \in PanMoves : mousemoved(by)
    \/ EditEvent /\ CreateNode
    \/ EditEvent /\ SelectNode
    \/ EditEvent /\ EditorSave
    \/ EditEvent /\ tick
    \/ EditEvent /\ autoFit

SpecEdit == Init /\ [][NextEdit]_vars

\* the step is an edit of the story's data after which the scene is rebuilt
DataEdit == (nodes' # nodes \/ links' # links) /\ Len(nodes') > 0

\* C11: an edit of the data that rebuilds the scene keeps the pan and zoom: the
\* transform of the drawn content group after the rebuild is the transform it
\* had, and the view had, before the edit.
C11_EditKeepsView ==
    [][DataEdit => gTransform' = gTransform /\ gTransform' = zoom]_vars

(***************************************************************************)
(* SpecLoad: the first load of the visualizer with any small story, left   *)
(* to the simulation's ticks and the auto-fit timer                        *)
(***************************************************************************)
\* the stories of the first render: a few nodes, at most one link, no link
\* to a missing node
LoadLinks == {ls \in TopoLinks : Len(ls) <= 1}

InitLoad ==
    /\ nodes \in TopoNodes
    /\ links \in LoadLinks
    /\ ~Dangling(nodes, links)
    /\ selectedNodeId = Null
    /\ now = InitialClock
    /\ file = NoFile
    /\ alertMsg = "none"
    /\ isFixed = FALSE
    /\ nodePositionsRef = <<>>
    /\ \E draws \in Draws(nodes, <<>>) :
          simulation = forceSimulation(nodes, links, <<>>, FALSE, draws)
    /\ drag = NoDrag
    /\ zoom = zoomIdentity
    /\ gTransform = zoomIdentity
    /\ dropped = NoDrop
    /\ leveling = NotLeveling
    /\ editor = NoEditor
    /\ events = 0

\* a tick of the simulation and the timer's callback, with no event of the user
LoadTick == tick /\ UNCHANGED events
LoadFit == autoFit /\ UNCHANGED events

NextLoad ==
    \/ LoadTick
    \/ LoadFit

\* setTimeout(..., 500): the callback is sure to run; the simulation ticks
\* with the animation frames, before the callback or after it
SpecLoad == InitLoad /\ [][NextLoad]_vars /\ WF_vars(LoadFit)

\* C12: on a first load left to itself the auto-fit is applied in the end, and
\* only once: from some point on the view is the fitted transform, not the
\* identity, and the one-shot timer that applies it is spent.
C12_AutoFitAppliedOnce == <>[](zoom # zoomIdentity /\ ~simulation.timer)

(***************************************************************************)
(* SpecTeardown: the simulations made and stopped by the runs of the       *)
(* effect, under edits, the import of the empty story, mode toggles and    *)
(* drags                                                                   *)
(***************************************************************************)
MaxTeardownEvents == 4

TeardownEvent ==
    /\ Mounted
    /\ events < MaxTeardownEvents
    /\ events' = events + 1

\* d3-force step(): a simulation left running stops its own timer once alpha
\* has decayed below alphaMin
orphanCooled ==
    /\ simulation.orphan
    /\ simulation' = [simulation EXCEPT !.orphan = FALSE]
    /\ UNCHANGED <<nodes, links, selectedNodeId, now, file, alertMsg, editor>>
    /\ UNCHANGED <<isFixed, nodePositionsRef, drag, zoom, gTransform, dropped, leveling>>

NextTeardown ==
    \/ TeardownEvent /\ CreateNode
    \/ TeardownEvent /\ SelectNode
    \/ TeardownEvent /\ EditorDelete
    \/ TeardownEvent /\ ImportEmptyStory
    \/ TeardownEvent /\ toggleFixedMode
    \/ TeardownEvent /\ \E i \in DOMAIN simulation.d3Nodes : dragstarted(i)
    \/ TeardownEvent /\ dragended
    \/ tick /\ UNCHANGED events
    \/ orphanCooled /\ UNCHANGED events

SpecTeardown == Init /\ [][NextTeardown]_vars

\* the step reran the effect: one of its dependencies changed
EffectRerun == <<nodes, links, selectedNodeId, isFixed>>' # <<nodes, links, selectedNodeId, isFixed>>

\* C13: at most one simulation runs: a simulation that was stopped runs again
\* only as the new instance of a rerun of the effect, never by itself, and no
\* earlier instance is running beside the one the effect made last.
C13_SingleSimulation ==
    [][/\ (~simulation.running /\ simulation'.running) => EffectRerun
       /\ ~(simulation'.running /\ simulation'.orphan)]_vars

(***************************************************************************)
(* SpecStory: the story under the editor's calls, the clock, and imports   *)
(* of files that were not written by the export                            *)
(***************************************************************************)
MaxStoryEvents == 4

StoryEvent ==
    /\ Mounted
    /\ events < MaxStoryEvents
    /\ events' = events + 1

ImportStory ==
    \E txt \in StoryTexts :
        /\ handleFileChange(txt)
        /\ IF ImportAccepted(txt) THEN Rerender ELSE NoRender

NextStory ==
    \/ StoryEvent /\ ClockTick /\ NoRender
    \/ StoryEvent /\ CreateNode
    \/ StoryEvent /\ EditorSave
    \/ StoryEvent /\ DeleteNode
    \/ StoryEvent /\ EditorAddLink
    \/ StoryEvent /\ EditorRemoveLink
    \/ StoryEvent /\ SelectNode
    \/ StoryEvent /\ ImportStory
    \/ StoryEvent /\ ExportJSON

SpecStory == Init /\ [][NextStory]_vars

IdsOf(ns) == [i \in DOMAIN ns |-> ns[i].id]

\* C14: after every step the ids of the nodes are pairwise distinct, and a
\* call of handleUpdateNode leaves the id of every node as it was.
C14_IdsUniqueAndKept ==
    [][/\ \A i, j \in DOMAIN nodes' : i # j => nodes'[i].id # nodes'[j].id
       /\ \A t \in EditTitles, c \in EditContents :
             (HasSelectedNode /\ handleUpdateNode(StoryNode(SelectedNode.id, t, c)))
                => IdsOf(nodes') = IdsOf(nodes)
      ]_vars

\* C15: in every state of the page from which the story can be exported, the
\* source and the target of every link are ids of nodes of the story.
C15_NoDanglingLink == Mounted => ~Dangling(nodes, links)

(***************************************************************************)
(* SpecAssist: the editor's assist request                                 *)
(*                          src/components/GraphVisualizer.tsx:449-480     *)
(*                          src/App.tsx:269-320                            *)
(***************************************************************************)
MaxAssistEvents == 4

\* what the suggestion of a full response carries, abbreviated
SuggestedTitle == <<"S">>
SuggestedContent == <<"s">>

\* response.text of a response that follows the responseSchema of the request
TxtSuggestion ==
    <<"{">> \o QuoteJson(K_title) \o <<":">> \o QuoteJson(SuggestedTitle) \o <<",">>
            \o QuoteJson(K_content) \o <<":">> \o QuoteJson(SuggestedContent) \o <<",">>
            \o QuoteJson(<<"c", "h", "o", "i", "c", "e", "s">>) \o <<":", "[", "]", "}">>

\* what ai.models.generateContent settles with: a rejection, or a response
\* whose text is empty, cut short, or the full suggestion
Rejected == [rejected |-> TRUE, text |-> <<>>]
Responded(txt) == [rejected |-> FALSE, text |-> txt]
FailedResponses == {Rejected, Responded(TxtEmpty), Responded(TxtOpenBrace)}
Responses == FailedResponses \cup {Responded(TxtSuggestion)}

\* JSON.parse(text) of the texts of the responses, parsed once
ParsedResponseTexts == [r \in Responses |-> JsonParse(r.text)]

\* generateStorySuggestion: what the awaited call gives, ok FALSE when it throws
generateStorySuggestion(response) ==
    IF response.rejected THEN [ok |-> FALSE, val |-> Undefined]
    ELSE IF response.text = <<>> THEN [ok |-> FALSE, val |-> Undefined]
    ELSE ParsedResponseTexts[response]

\* the title or the body field: onChange={(e) => setLocalTitle(e.target.value)}
EditorType ==
    /\ HasSelectedNode
    /\ \E t \in EditTitles \cup {<<>>}, c \in EditContents \cup {<<>>} :
          /\ <<t, c>> # <<editor.localTitle, editor.localContent>>
          /\ editor' = [editor EXCEPT !.localTitle = t, !.localContent = c]
    /\ UNCHANGED <<nodes, links, selectedNodeId, now, file, alertMsg>>
    /\ UNCHANGED graphVars

\* onBlur={handleSave} with the drafts as they stand:
\* onUpdateNode({...selectedNode, title: localTitle, content: localContent})
EditorBlur ==
    /\ HasSelectedNode
    /\ handleUpdateNode(StoryNode(SelectedNode.id, editor.localTitle, editor.localContent))
    /\ Rerender

\* handleAiImprove up to its await: hasKey is what getGeminiApiKey() gives
handleAiImprove ==
    /\ HasSelectedNode
    /\ ~editor.isAiLoading
    /\ \E hasKey \in BOOLEAN :
          IF ~hasKey
          THEN /\ alertMsg' = "no api key"
               /\ UNCHANGED editor
          ELSE /\ alertMsg' = "none"
               /\ editor' = [editor EXCEPT !.isAiLoading = TRUE,
                                           !.request = [on |-> TRUE, node |-> SelectedNode]]
    /\ UNCHANGED <<nodes, links, selectedNodeId, now, file>>
    /\ UNCHANGED graphVars

\* handleAiImprove where a response that failed commits the node with no text
assistResponded_CommitsOnFailure(response) ==
    /\ editor.request.on
    /\ \E suggestion \in {generateStorySuggestion(response)} :
          /\ handleUpdateNode(
                 IF suggestion.ok
                 THEN StoryNode(editor.request.node.id,
                                Prop(suggestion.val, K_title).s,
                                Prop(suggestion.val, K_content).s)
                 ELSE StoryNode(editor.request.node.id, <<>>, <<>>))
          /\ editor' = SyncedEditor(
                 IF suggestion.ok
                 THEN [editor EXCEPT !.localTitle = Prop(suggestion.val, K_title).s,
                                     !.localContent = Prop(suggestion.val, K_content).s,
                                     !.isAiLoading = FALSE,
                                     !.request = NoRequest]
                 ELSE [editor EXCEPT !.isAiLoading = FALSE, !.request = NoRequest])
          /\ UNCHANGED <<isFixed, leveling>>
          /\ useEffect

\* handleAiImprove from its await on: the try block's rest, catch and finally,
\* with the selectedNode of the render in which the button was clicked
assistResponded(response) ==
    /\ editor.request.on
    /\ \E suggestion \in {generateStorySuggestion(response)} :
          IF suggestion.ok
          THEN /\ handleUpdateNode(StoryNode(editor.request.node.id,
                                             Prop(suggestion.val, K_title).s,
                                             Prop(suggestion.val, K_content).s))
               /\ editor' = SyncedEditor(
                      [editor EXCEPT !.localTitle = Prop(suggestion.val, K_title).s,
                                     !.localContent = Prop(suggestion.val, K_content).s,
                                     !.isAiLoading = FALSE,
                                     !.request = NoRequest])
               /\ UNCHANGED <<isFixed, leveling>>
               /\ useEffect
          ELSE /\ alertMsg' = "assist failed"
               /\ editor' = [editor EXCEPT !.isAiLoading = FALSE, !.request = NoRequest]
               /\ UNCHANGED <<nodes, links, selectedNodeId, now, file>>
               /\ UNCHANGED graphVars

AiImprove == handleAiImprove
AiResponse == \E response \in Responses : assistResponded(response)

AssistEvent ==
    /\ Mounted
    /\ events < MaxAssistEvents
    /\ events' = events + 1

NextAssist ==
    \/ AssistEvent /\ SelectNode
    \/ AssistEvent /\ CreateNode
    \/ AssistEvent /\ DeleteNode
    \/ AssistEvent /\ EditorType
    \/ AssistEvent /\ EditorSave
    \/ AssistEvent /\ EditorBlur
    \/ AssistEvent /\ AiImprove
    \/ AiResponse /\ UNCHANGED events

SpecAssist == Init /\ [][NextAssist]_vars

\* the node of the request with the texts of the suggestion
Committed(ns, id) ==
    [i \in DOMAIN ns |->
        IF ns[i].id = id THEN StoryNode(id, SuggestedTitle, SuggestedContent) ELSE ns[i]]

\* C16: an assist request changes the story only by one commit, made when the
\* full response has come: the click changes neither the story nor the drafts;
\* a response that failed (rejected, empty or cut short) and a missing key
\* leave nodes, links and both drafts as they were; the full response replaces
\* the texts of the node of the request and nothing else of the story
C16_AssistCommitsOnce ==
    [][/\ handleAiImprove =>
              /\ UNCHANGED <<nodes, links>>
              /\ editor'.localTitle = editor.localTitle
              /\ editor'.localContent = editor.localContent
       /\ \A response \in FailedResponses :
              assistResponded(response) =>
                  /\ UNCHANGED <<nodes, links>>
                  /\ editor'.localTitle = editor.localTitle
                  /\ editor'.localContent = editor.localContent
       /\ assistResponded(Responded(TxtSuggestion)) =>
              /\ links' = links
              /\ nodes' = Committed(nodes, editor.request.node.id)
       /\ (nodes' # nodes /\ editor.request.on /\ ~editor'.request.on) =>
              assistResponded(Responded(TxtSuggestion))]_vars

\* a response that failed has been handled while the drafts held text that was
\* not saved, and the story is the initial one
C16_FailureHandled ==
    /\ alertMsg = "assist failed"
    /\ HasSelectedNode
    /\ editor.localTitle # SelectedNode.title
    /\ nodes = initialNodes

\* the suggestion of a full response has been committed to a node
C16_Committed ==
    /\ ~editor.isAiLoading
    /\ \E i \in DOMAIN nodes :
          nodes[i].title = SuggestedTitle /\ nodes[i].content = SuggestedContent

(***************************************************************************)
(* Drag end in fixed mode     src/components/GraphVisualizer.tsx:279-299   *)
(***************************************************************************)
\* C17: in fixed mode the end of a drag pins the node where the last
\* drag-move event put it (d.fx, d.fy, which dragged set from event.x, event.y)
\* and writes that position to the cache, whatever ticks came in between
C17_PinnedAtLastMove ==
    [][(dragended /\ drag.live /\ simulation.isFixed) =>
          LET d == simulation.d3Nodes[drag.index]
              released == simulation'.d3Nodes[drag.index]
          IN  /\ released.fx = d.fx
              /\ released.fy = d.fy
              /\ nodePositionsRef'[d.id].x = d.fx[1]
              /\ nodePositionsRef'[d.id].y = d.fy[1]
              /\ nodePositionsRef'[d.id].fx = d.fx
              /\ nodePositionsRef'[d.id].fy = d.fy]_vars

(***************************************************************************)
(* Pins and the mode   src/components/GraphVisualizer.tsx:98-108, 273-299  *)
(***************************************************************************)
\* the node the pointer holds, of the simulation of the drawing on screen
Dragging(i) == drag.on /\ drag.live /\ drag.index = i

\* the nodes of the simulation are pinned at their positions in fixed mode
\* and free in free mode, but for the node being dragged
PinnedIffFixed ==
    Len(nodes) > 0 =>
        \A i \in DOMAIN simulation.d3Nodes :
            LET n == simulation.d3Nodes[i]
            IN  ~Dragging(i) =>
                    IF isFixed
                    THEN n.fx = Pinned(n.x) /\ n.fy = Pinned(n.y)
                    ELSE n.fx = Unpinned /\ n.fy = Unpinned

\* the toggle to fixed mode pins every node that has a cache entry at the
\* cached position
PinsAtCache ==
    (toggleFixedMode /\ isFixed' /\ Len(nodes) > 0) =>
        \A i \in DOMAIN simulation'.d3Nodes :
            LET n == simulation'.d3Nodes[i]
            IN  n.id \in DOMAIN nodePositionsRef =>
                    /\ n.fx = Pinned(nodePositionsRef[n.id].x)
                    /\ n.fy = Pinned(nodePositionsRef[n.id].y)

\* C18: in every reachable state every node of the simulation that is not
\* being dragged is pinned at its own position if and only if the mode is
\* fixed (in free mode its fx and fy are null); the toggle to fixed mode pins
\* the nodes at their cached positions, the toggle back releases them
C18_PinnedIffFixed == []PinnedIffFixed /\ [][PinsAtCache]_vars

\* fixed mode was switched on after ticks and a drag had filled the cache, a
\* node was dragged and dropped in it, and free mode is back
C18_Witness ==
    /\ ~isFixed
    /\ ~drag.on
    /\ DOMAIN nodePositionsRef = NodeIds(nodes)
    /\ \E id \in DOMAIN nodePositionsRef : nodePositionsRef[id].fx # Unpinned
    /\ \A i \in DOMAIN simulation.d3Nodes : simulation.d3Nodes[i].fx = Unpinned

(***************************************************************************)
(* The horizontal anchor  src/components/GraphVisualizer.tsx:87-92, 148-156 *)
(***************************************************************************)
\* C19: in free mode the force "x" pulls every node to level * levelSpacing
\* + 100, the x at which a node with no cache entry is first placed (autoX)
C19_AnchorAtInitialX ==
    (Len(nodes) > 0 /\ ~simulation.isFixed) =>
        \A i \in DOMAIN simulation.d3Nodes :
            forceXTarget(simulation.d3Nodes[i]) = autoX(simulation.d3Nodes[i].level)

(***************************************************************************)
(* SpecCapture: svgToCanvas on the svg it is given                         *)
(*                                        src/unnamed/part_000:51-129      *)
(***************************************************************************)
\* an svg whose first <g> has nothing drawn in it
EmptyDrawing ==
    [d3Nodes |-> <<>>, isFixed |-> FALSE, running |-> FALSE, timer |-> FALSE,
     placed |-> FALSE, orphan |-> FALSE, thrown |-> FALSE]

\* the svg handed to downloadImage and downloadPDF: the drawing of a small
\* story, before its first tick or after ticks, or an empty group
InitCapture ==
    /\ nodes \in TopoNodes \cup {<<>>}
    /\ links \in LoadLinks
    /\ ~Dangling(nodes, links)
    /\ selectedNodeId = Null
    /\ now = InitialClock
    /\ file = NoFile
    /\ alertMsg = "none"
    /\ isFixed = FALSE
    /\ nodePositionsRef = <<>>
    /\ IF nodes = <<>>
       THEN simulation = EmptyDrawing
       ELSE \E draws \in Draws(nodes, <<>>) :
                simulation = forceSimulation(nodes, links, <<>>, FALSE, draws)
    /\ drag = NoDrag
    /\ zoom = zoomIdentity
    /\ gTransform = zoomIdentity
    /\ dropped = NoDrop
    /\ leveling = NotLeveling
    /\ editor = NoEditor
    /\ events = 0

NextCapture ==
    \/ tick /\ UNCHANGED events
    \/ ExportImage /\ UNCHANGED events
    \/ ExportPDF /\ UNCHANGED events

SpecCapture == InitCapture /\ [][NextCapture]_vars

\* a box with no extent in one direction
Degenerate(bbox) == bbox.width = 0 \/ bbox.height = 0

StartSet ==
    IF \E i \in DOMAIN nodes : Incoming(nodes[i].id) = 0
    THEN {nodes[i].id : i \in {j \in DOMAIN nodes : Incoming(nodes[j].id) = 0}}
    ELSE {nodes[1].id}

\* the ids that a path of at most k links reaches from the start set
RECURSIVE Within(_)
Within(k) ==
    IF k = 0 THEN StartSet
    ELSE Within(k - 1) \cup
         {links[j].target : j \in {m \in DOMAIN links : links[m].source \in Within(k - 1)}}

\* the least number of links on a path from a start node to a reachable id
Distance(id) == MinOf({k \in 0..Len(links) : id \in Within(k)})

\* the orders in which the collection may hold the same links
LinkOrders == {p \in [DOMAIN links -> DOMAIN links] : \A i, j \in DOMAIN links : p[i] = p[j] => i = j}

\* what C21 asks of the levels the effect has computed
BreadthFirstLevels ==
    /\ \A i \in DOMAIN nodes :
          /\ nodes[i].id \in StartSet => leveling.nodeLevels[nodes[i].id] = 0
          /\ nodes[i].id \in Within(Len(links)) =>
                leveling.nodeLevels[nodes[i].id] = Distance(nodes[i].id)
    /\ \A p \in LinkOrders :
          nodeLevels(nodes, [i \in DOMAIN links |-> links[p[i]]]) = leveling.nodeLevels

\* C21: the leveling is breadth-first from the whole start set: every start
\* node has level 0, every node a path of links reaches from the start set has
\* the least number of links of such a path, and the levels are the same for
\* every order of the link collection
C21_BreadthFirstLevels == leveling.pc = "done" => BreadthFirstLevels

\* a chain of three nodes has been leveled 0, 1, 2
C21_Witness ==
    /\ leveling.pc = "done"
    /\ Len(nodes) = 3
    /\ Len(links) = 2
    /\ \E a, b, c \in DOMAIN nodes :
          /\ links[1].source = nodes[b].id /\ links[1].target = nodes[c].id
          /\ links[2].source = nodes[a].id /\ links[2].target = nodes[b].id
          /\ leveling.nodeLevels[nodes[a].id] = 0
          /\ leveling.nodeLevels[nodes[b].id] = 1
          /\ leveling.nodeLevels[nodes[c].id] = 2

(***************************************************************************)
(* The response and the selection                                          *)
(*                          src/components/GraphVisualizer.tsx:426-480     *)
(***************************************************************************)
\* the node holds the texts of the suggestion
HoldsSuggestion(n) == n.title = SuggestedTitle /\ n.content = SuggestedContent

\* another node than the one of the request is selected
OtherSelected == HasSelectedNode /\ selectedNodeId # editor.request.node.id

\* C22: a response touches only the node of its request: when another node
\* has been selected while the call was awaited, the response leaves the
\* drafts shown for that node as they were, and a save of the drafts on blur
\* never turns a node into the suggestion (the node of the request has it from
\* the commit, no other node is to get it)
C22_ResponseKeepsOtherDrafts ==
    [][/\ \A response \in Responses :
              (assistResponded(response) /\ OtherSelected) =>
                  /\ editor'.localTitle = editor.localTitle
                  /\ editor'.localContent = editor.localContent
       /\ EditorBlur =>
              \A i \in DOMAIN nodes :
                  HoldsSuggestion(nodes'[i]) => HoldsSuggestion(nodes[i])]_vars

====
